---- MODULE Spec2Model ----
(***************************************************************************)
(* Food Wastage Management System (src/App.py): the data-access layer      *)
(* (get_db_connection, run_query, create_record, update_record,            *)
(* delete_record, fetch_table_data) and the script-run shell around it,    *)
(* over a relational store with the four tables of the application.        *)
(*                                                                         *)
(* The store is MySQL reached through mysql.connector with its defaults:   *)
(* statements run in a transaction that conn.commit() makes durable and    *)
(* that closing the connection without commit discards; cursor.rowcount    *)
(* is the row count of the last statement executed on the cursor.  The     *)
(* store does not enforce foreign keys (spec section 3: "not necessarily   *)
(* enforced"), and primary keys are NOT NULL without auto-increment (the   *)
(* forms always supply them, min_value=1).                                 *)
(*                                                                         *)
(* Each table is modelled with its primary key and at most one of its      *)
(* other columns, so that every widget kind (number, text, date) occurs.   *)
(***************************************************************************)
EXTENDS Integers, Sequences, FiniteSets, TLC

\* ---------------------------------------------------------------- bounds
MaxId == 2        \* record ids range over 1..MaxId
MaxRows == 2      \* the store holds at most MaxRows rows in total

\* --------------------------------------------------------- Python values
PyNone == [ty |-> "NoneType", s |-> "", n |-> 0]
PyStr(x) == [ty |-> "str", s |-> x, n |-> 0]
PyInt(k) == [ty |-> "int", s |-> "", n |-> k]
PyDate(k) == [ty |-> "date", s |-> "", n |-> k]

\* Python's ==, as `in` applies it to the elements of a list: numbers
\* (int, float, bool) compare by value, strings by content, None only to None.
PyEq(v, w) ==
    LET num == {"int", "float", "bool"}
    IN  IF v.ty \in num /\ w.ty \in num THEN v.n = w.n
        ELSE v.ty = w.ty /\ v.s = w.s /\ v.n = w.n

\* v in lst
PyIn(v, lst) == \E i \in 1..Len(lst) : PyEq(v, lst[i])

\* ----------------------------------------------------------------- schema
table_fields ==
    [Food_Listings |-> <<"Food_ID", "Expiry_Date">>,
     Providers     |-> <<"Provider_ID", "Name">>,
     Receivers     |-> <<"Receiver_ID">>,
     Claims        |-> <<"Claim_ID", "Food_ID">>]

primary_keys ==
    [Food_Listings |-> "Food_ID",
     Providers     |-> "Provider_ID",
     Receivers     |-> "Receiver_ID",
     Claims        |-> "Claim_ID"]

StoreTables == DOMAIN table_fields

\* A table name the application does not know, and the columns a caller
\* may pass for it.
UnknownTable == "Users"
TableNames == StoreTables \cup {UnknownTable}

Range(sq) == {sq[i] : i \in 1..Len(sq)}

ColSet(t) == Range(table_fields[t])

\* The widget kind of a field in the CRUD forms: number_input for *ID* and
\* Quantity, date_input for *Date*, text_input otherwise.
WidgetKind(field) ==
    IF field \in {"Food_ID", "Provider_ID", "Receiver_ID", "Claim_ID", "Quantity"}
    THEN "number"
    ELSE IF field \in {"Expiry_Date"} THEN "date" ELSE "text"

Dates == {1, 2}
Texts == {"", "a"}

\* date_input(field) without a value shows today's date.
Today == PyDate(1)

\* The value a widget of the Update form holds when the user leaves it
\* alone: text_input "", number_input value=0, date_input today.
WidgetDefault(field) ==
    IF WidgetKind(field) = "number" THEN PyInt(0)
    ELSE IF WidgetKind(field) = "date" THEN Today
    ELSE PyStr("")

\* The values a caller can pass for a field.
FieldValues(field) ==
    IF WidgetKind(field) = "number" THEN {PyInt(k) : k \in 0..MaxId}
    ELSE IF WidgetKind(field) = "date" THEN {PyDate(d) : d \in Dates}
    ELSE {PyNone} \cup {PyStr(x) : x \in Texts}

\* The fields of the Create form of a table (table_fields[table_name]); a
\* caller naming a table the application does not know passes a Name.
CreateFields(t) == IF t \in StoreTables THEN ColSet(t) ELSE {"Name"}

\* The fields of the Update form: the Create form's without the primary key.
UpdateFields(t) ==
    IF t \in StoreTables THEN ColSet(t) \ {primary_keys[t]} ELSE {"Name"}

\* Field maps (Python dicts keep insertion order): sequences of <<key, value>>
\* with distinct keys, here the maps of k entries over a set of fields.
RECURSIVE FieldMapsOfLen(_, _)
FieldMapsOfLen(fields, k) ==
    IF k = 0 THEN {<<>>}
    ELSE UNION {{Append(fc[1], <<fc[2], v>>) : v \in FieldValues(fc[2])} :
            fc \in {<<g, d>> \in FieldMapsOfLen(fields, k - 1) \X fields :
                            \A i \in 1..Len(g) : g[i][1] # d}}

Keys(f) == [i \in 1..Len(f) |-> f[i][1]]
Vals(f) == [i \in 1..Len(f) |-> f[i][2]]

FieldMaps(fields) == UNION {FieldMapsOfLen(fields, k) : k \in 0..Cardinality(fields)}

\* ------------------------------------------------------------------ store
\* A row of table t: a value for every column (PyNone is SQL NULL).
IndexOf(sq, x) == CHOOSE i \in 1..Len(sq) : sq[i] = x

TotalRows(store) ==
    Cardinality(UNION {{<<t, r>> : r \in store[t]} : t \in StoreTables})

EmptyStore == [t \in StoreTables |-> {}]

\* A statement sent to the store with cursor.execute / pd.read_sql: its verb,
\* target table, column list, bound parameters and WHERE column.
Statement(verb, t, cols, params, where) ==
    [verb |-> verb, table |-> t, cols |-> cols, params |-> params, where |-> where]

\* The store's answer: ok (FALSE: it raised mysql.connector.Error), the
\* store after the statement within the open transaction, and the affected
\* row count.
Answer(ok, store, rowcount) == [ok |-> ok, store |-> store, rowcount |-> rowcount]

\* INSERT INTO t (cols) VALUES (vals): rejected for an unknown table or
\* column, a missing primary key, or a duplicate primary key.
ExecInsert(store, t, cols, vals) ==
    IF t \notin StoreTables \/ ~(Range(cols) \subseteq ColSet(t))
    THEN Answer(FALSE, store, 0)
    ELSE LET pk == primary_keys[t]
             row == [c \in ColSet(t) |->
                        IF c \in Range(cols) THEN vals[IndexOf(cols, c)] ELSE PyNone]
         IN  IF pk \notin Range(cols) \/ \E r \in store[t] : r[pk] = row[pk]
             THEN Answer(FALSE, store, 0)
             ELSE Answer(TRUE, [store EXCEPT ![t] = @ \cup {row}], 1)

\* UPDATE t SET cols = vals WHERE where = id.  The affected-row count is
\* the number of rows the statement changed (CLIENT_FOUND_ROWS is not among
\* the connector's default flags).
ExecUpdate(store, t, cols, vals, where, id) ==
    IF t \notin StoreTables \/ ~(Range(cols) \subseteq ColSet(t))
    THEN Answer(FALSE, store, 0)
    ELSE LET pk == primary_keys[t]
             new(r) == [c \in ColSet(t) |->
                          IF c \in Range(cols) THEN vals[IndexOf(cols, c)] ELSE r[c]]
             hit == {r \in store[t] : r[where] = id}
             rest == store[t] \ hit
             moved == {new(r) : r \in hit}
         IN  IF \/ \E r \in moved : \E q \in rest : q[pk] = r[pk]
                \/ Cardinality(moved) < Cardinality(hit)
             THEN Answer(FALSE, store, 0)
             ELSE Answer(TRUE, [store EXCEPT ![t] = rest \cup moved],
                         Cardinality({r \in hit : new(r) # r}))

\* DELETE FROM t WHERE where = id.
ExecDelete(store, t, where, id) ==
    IF t \notin StoreTables \/ where \notin ColSet(t)
    THEN Answer(FALSE, store, 0)
    ELSE LET hit == {r \in store[t] : r[where] = id}
         IN  Answer(TRUE, [store EXCEPT ![t] = @ \ hit], Cardinality(hit))

\* A query text handed to run_query: a SELECT * over a table, or text the
\* store cannot parse.
SelectAll(t) == [kind |-> "select", table |-> t]
Malformed == [kind |-> "malformed", table |-> ""]
NoQuery == [kind |-> "none", table |-> ""]
Queries == {SelectAll(t) : t \in TableNames} \cup {Malformed}

ExecSelect(store, q) ==
    IF q.kind = "select" /\ q.table \in StoreTables
    THEN [ok |-> TRUE, rows |-> store[q.table]]
    ELSE [ok |-> FALSE, rows |-> {}]

\* ------------------------------------------------------------- operations
\* What one call of a core operation did: its arguments, whether
\* get_db_connection returned a connection, the statements it sent to the
\* store in order with their affected-row counts, whether it committed, the
\* message it reported (st.success / st.warning / st.error), whether an
\* exception left the operation, the connections and cursors it opened and
\* closed, the table it returned (run_query, analysis_query) and the chart it
\* returned (analysis_query).
Call(op, t, id, inputs, query) ==
    [op |-> op, table |-> t, id |-> id, inputs |-> inputs, query |-> query]

\* The chart analysis_query returns: none, or a chart over the columns its
\* rule reads.
NoFig == [kind |-> "none", reads |-> <<>>]
Chart(reads) == [kind |-> "chart", reads |-> reads]

Effect(connected, stmts, rowcounts, committed, report, raised, opened, closed, df) ==
    [connected |-> connected, stmts |-> stmts, rowcounts |-> rowcounts,
     committed |-> committed, report |-> report, raised |-> raised,
     connsOpened |-> opened.conn, connsClosed |-> closed.conn,
     cursorsOpened |-> opened.cursor, cursorsClosed |-> closed.cursor, df |-> df,
     fig |-> NoFig]

Outcome(call, effect, store) == [call |-> call, effect |-> effect, store |-> store]

Resources(conn, cursor) == [conn |-> conn, cursor |-> cursor]

\* A finally clause that forgets the connection.
finally_close_CursorOnly(locals) ==
    Resources(0, IF "cursor" \in locals THEN 1 ELSE 0)

\* The finally clause of create_record, update_record and delete_record:
\* cursor.close() if 'cursor' in locals(), conn.close() if 'conn' in locals().
finally_close(locals) ==
    Resources(IF "conn" \in locals THEN 1 ELSE 0,
              IF "cursor" \in locals THEN 1 ELSE 0)

\* get_db_connection failed: st.error(...) then st.stop(), which raises
\* Streamlit's StopException.  It derives from BaseException, so no
\* `except Exception` clause of a caller catches it.  The caller never bound
\* 'conn' or 'cursor'.
ConnectionFailed(closed) ==
    Effect(FALSE, <<>>, <<>>, FALSE, "error: Error connecting to the database",
           TRUE, Resources(0, 0), closed, {})

\* A CRUD call that got its connection and cursor and left its try block with
\* a report; the finally clause sees both locals.
CrudEffect(stmts, rowcounts, committed, report) ==
    Effect(TRUE, stmts, rowcounts, committed, report, FALSE,
           Resources(1, 1), finally_close({"conn", "cursor"}), {})

\* A filter that forgets the number zero: v not in [None, ""].
NotEmptyValue_ZeroKept(v) == ~PyIn(v, <<PyNone, PyStr("")>>)

\* v not in [None, "", 0]
NotEmptyValue(v) == ~PyIn(v, <<PyNone, PyStr(""), PyInt(0)>>)

KeepEntry(kv) == NotEmptyValue(kv[2])

\* {k: v for k, v in inputs.items() if v not in [None, "", 0]}
filtered_inputs(inputs) == SelectSeq(inputs, KeepEntry)

\* A row count read after the first statement instead of the last.
cursor_rowcount_First(rowcounts) == rowcounts[1]

\* cursor.rowcount: the affected-row count of the last statement executed.
cursor_rowcount(rowcounts) == rowcounts[Len(rowcounts)]

run_query(store, query, connOk) ==
    LET call == Call("run_query", query.table, 0, <<>>, query)
        stmt == Statement("SELECT", query.table, <<>>, <<>>, "")
        a == ExecSelect(store, query)
    IN  IF ~connOk THEN Outcome(call, ConnectionFailed(Resources(0, 0)), store)
        ELSE IF a.ok
        THEN Outcome(call,
               Effect(TRUE, <<stmt>>, <<0>>, FALSE, "none", FALSE,
                      Resources(1, 0), Resources(1, 0), a.rows), store)
        ELSE Outcome(call,
               Effect(TRUE, <<stmt>>, <<0>>, FALSE, "error: Query Error", FALSE,
                      Resources(1, 0), Resources(0, 0), {}), store)

\* A fetch with the table name hard-coded.
fetch_table_data_Providers(store, table_name, connOk) ==
    run_query(store, SelectAll("Providers"), connOk)

fetch_table_data(store, table_name, connOk) ==
    run_query(store, SelectAll(table_name), connOk)

create_record(store, table_name, inputs, connOk) ==
    LET call == Call("create_record", table_name, 0, inputs, NoQuery)
        filtered == filtered_inputs(inputs)
        stmt == Statement("INSERT", table_name, Keys(filtered), Vals(filtered), "")
        a == ExecInsert(store, table_name, Keys(filtered), Vals(filtered))
    IN  IF ~connOk THEN Outcome(call, ConnectionFailed(finally_close({})), store)
        ELSE IF filtered = <<>>
        THEN Outcome(call,
               CrudEffect(<<>>, <<>>, FALSE, "warning: No data to insert"), store)
        ELSE IF a.ok
        THEN Outcome(call,
               CrudEffect(<<stmt>>, <<a.rowcount>>, TRUE, "success: Record created"),
               a.store)
        ELSE Outcome(call,
               CrudEffect(<<stmt>>, <<0>>, FALSE, "error: Error creating record"),
               store)

\* A report that takes any row count for a success.
update_report_NonNegative(rowcount) ==
    IF rowcount >= 0 THEN "success: Record updated" ELSE "warning: No record found"

\* The report after a committed UPDATE.
update_report(rowcount) ==
    IF rowcount > 0 THEN "success: Record updated" ELSE "warning: No record found"

update_record(store, table_name, record_id, inputs, connOk) ==
    LET call == Call("update_record", table_name, record_id, inputs, NoQuery)
        filtered == filtered_inputs(inputs)
        pk == primary_keys[table_name]
        stmt == Statement("UPDATE", table_name, Keys(filtered),
                          Append(Vals(filtered), PyInt(record_id)), pk)
        a == ExecUpdate(store, table_name, Keys(filtered), Vals(filtered),
                        pk, PyInt(record_id))
    IN  IF ~connOk THEN Outcome(call, ConnectionFailed(finally_close({})), store)
        ELSE IF table_name \notin DOMAIN primary_keys
        THEN Outcome(call,
               CrudEffect(<<>>, <<>>, FALSE, "error: Unexpected error"), store)
        ELSE IF filtered = <<>>
        THEN Outcome(call,
               CrudEffect(<<>>, <<>>, FALSE, "warning: No fields to update"), store)
        ELSE IF ~a.ok
        THEN Outcome(call,
               CrudEffect(<<stmt>>, <<0>>, FALSE, "error: Error updating record"),
               store)
        ELSE Outcome(call,
               CrudEffect(<<stmt>>, <<a.rowcount>>, TRUE,
                          update_report(cursor_rowcount(<<a.rowcount>>))),
               a.store)

\* No deletion of the dependent claims.
delete_statements_NoCascade(table_name, pk, id) ==
    <<Statement("DELETE", table_name, <<>>, <<id>>, pk)>>

\* The listing deleted before its claims.
delete_statements_ListingFirst(table_name, pk, id) ==
    <<Statement("DELETE", table_name, <<>>, <<id>>, pk)>>
    \o (IF table_name = "Food_Listings"
        THEN <<Statement("DELETE", "Claims", <<>>, <<id>>, "Food_ID")>>
        ELSE <<>>)

\* The DELETE statements of delete_record, in the order it
\* executes them.
delete_statements(table_name, pk, id) ==
    (IF table_name = "Food_Listings"
     THEN <<Statement("DELETE", "Claims", <<>>, <<id>>, "Food_ID")>>
     ELSE <<>>)
    \o <<Statement("DELETE", table_name, <<>>, <<id>>, pk)>>

\* cursor.execute over a list of DELETE statements on one cursor, stopping
\* at the first the store rejects: the statements sent, their affected-row
\* counts, and the store within the transaction.
RECURSIVE ExecDeletes(_, _)
ExecDeletes(store, stmts) ==
    IF stmts = <<>>
    THEN [ok |-> TRUE, store |-> store, sent |-> <<>>, rowcounts |-> <<>>]
    ELSE LET a == ExecDelete(store, stmts[1].table, stmts[1].where, stmts[1].params[1])
             rest == ExecDeletes(a.store, Tail(stmts))
         IN  IF ~a.ok
             THEN [ok |-> FALSE, store |-> store, sent |-> <<stmts[1]>>,
                   rowcounts |-> <<0>>]
             ELSE [ok |-> rest.ok, store |-> rest.store,
                   sent |-> <<stmts[1]>> \o rest.sent,
                   rowcounts |-> <<a.rowcount>> \o rest.rowcounts]

\* A report that takes any row count for a success.
delete_report_NonNegative(rowcount) ==
    IF rowcount >= 0 THEN "success: Record deleted" ELSE "warning: No record found"

\* The report after the committed DELETEs.
delete_report(rowcount) ==
    IF rowcount > 0 THEN "success: Record deleted" ELSE "warning: No record found"

delete_record(store, table_name, record_id, connOk) ==
    LET call == Call("delete_record", table_name, record_id, <<>>, NoQuery)
        pk == primary_keys[table_name]
        x == ExecDeletes(store, delete_statements(table_name, pk, PyInt(record_id)))
    IN  IF ~connOk THEN Outcome(call, ConnectionFailed(finally_close({})), store)
        ELSE IF table_name \notin DOMAIN primary_keys
        THEN Outcome(call,
               CrudEffect(<<>>, <<>>, FALSE, "error: Unexpected error"), store)
        ELSE IF ~x.ok
        THEN Outcome(call,
               CrudEffect(x.sent, x.rowcounts, FALSE, "error: Error deleting record"),
               store)
        ELSE Outcome(call,
               CrudEffect(x.sent, x.rowcounts, TRUE,
                          delete_report(cursor_rowcount(x.rowcounts))),
               x.store)

\* ------------------------------------------------------ analysis catalog
\* A query template of analysis_query, by what decides its result: whether
\* its text has a %s slot, the columns it projects, the tables it joins
\* (inner joins: each must hold a row), whether it joins Claims to
\* Food_Listings on Food_ID, whether it needs a listing with an expiry date,
\* whether it is a single ungrouped aggregate (always one row), and whether
\* its result further depends on columns outside the model or on CURDATE().
Template(slot, columns, from, foodJoin, dated, aggregate, free) ==
    [slot |-> slot, columns |-> columns, from |-> from, foodJoin |-> foodJoin,
     dated |-> dated, aggregate |-> aggregate, free |-> free]

queries ==
    ("Providers & Receivers by City" :>
        Template(FALSE, <<"City", "Providers_Count", "Receivers_Count">>,
                 {"Providers"}, FALSE, FALSE, FALSE, FALSE)) @@
    ("Top Food Provider Type by Quantity" :>
        Template(FALSE, <<"Type", "Total_Quantity">>,
                 {"Providers", "Food_Listings"}, FALSE, FALSE, FALSE, TRUE)) @@
    ("Provider Contact Info by City" :>
        Template(TRUE, <<"Name", "Contact", "Address">>,
                 {"Providers"}, FALSE, FALSE, FALSE, TRUE)) @@
    ("Top Receivers by Claimed Food" :>
        Template(FALSE, <<"Name", "Contact", "Total_Claimed">>,
                 {"Receivers", "Claims", "Food_Listings"}, TRUE, FALSE, FALSE, TRUE)) @@
    ("Total Food Quantity Available" :>
        Template(FALSE, <<"Total_Food_Quantity">>,
                 {"Food_Listings"}, FALSE, FALSE, TRUE, FALSE)) @@
    ("City with Most Food Listings" :>
        Template(FALSE, <<"City", "Listings_Count">>,
                 {"Providers", "Food_Listings"}, FALSE, FALSE, FALSE, TRUE)) @@
    ("Top Food Types Available" :>
        Template(FALSE, <<"Food_Type", "Count">>,
                 {"Food_Listings"}, FALSE, FALSE, FALSE, FALSE)) @@
    ("Claims Count per Food Item" :>
        Template(FALSE, <<"Food_Name", "Claims_Count">>,
                 {"Food_Listings", "Claims"}, TRUE, FALSE, FALSE, FALSE)) @@
    ("Top Provider by Successful Claims" :>
        Template(FALSE, <<"Name", "Successful_Claims">>,
                 {"Providers", "Food_Listings", "Claims"}, TRUE, FALSE, FALSE, TRUE)) @@
    ("Claims Status Percentage" :>
        Template(FALSE, <<"Status", "Count", "Percentage">>,
                 {"Claims"}, FALSE, FALSE, FALSE, FALSE)) @@
    ("Avg Quantity Claimed per Receiver" :>
        Template(FALSE, <<"Name", "Avg_Quantity_Claimed">>,
                 {"Receivers", "Claims", "Food_Listings"}, TRUE, FALSE, FALSE, TRUE)) @@
    ("Most Claimed Meal Type" :>
        Template(FALSE, <<"Meal_Type", "Claims_Count">>,
                 {"Food_Listings", "Claims"}, TRUE, FALSE, FALSE, FALSE)) @@
    ("Total Food Donated by Provider" :>
        Template(FALSE, <<"Name", "Total_Quantity_Donated">>,
                 {"Providers", "Food_Listings"}, FALSE, FALSE, FALSE, TRUE)) @@
    ("Top Cities by Claimed Food Quantity" :>
        Template(FALSE, <<"City", "Total_Claimed">>,
                 {"Providers", "Food_Listings", "Claims"}, TRUE, FALSE, FALSE, TRUE)) @@
    ("Providers with Most Food Listings" :>
        Template(FALSE, <<"Name", "Listings_Count">>,
                 {"Providers", "Food_Listings"}, FALSE, FALSE, FALSE, TRUE)) @@
    ("Expired or Soon-to-Expire Food Items" :>
        Template(FALSE, <<"Food_Name", "Quantity", "Expiry_Date", "Location">>,
                 {"Food_Listings"}, FALSE, TRUE, FALSE, TRUE))

\* A chart rule left behind when its query's output column was renamed.
charts_RenamedColumn ==
    ("Claims Status Percentage" :> <<"Status", "Percent">>)

\* The chart rules, by the columns of the result each one reads.
charts ==
    ("Providers & Receivers by City" :> <<"City", "Providers_Count", "Receivers_Count">>) @@
    ("Top Food Provider Type by Quantity" :> <<"Type", "Total_Quantity">>) @@
    ("Top Receivers by Claimed Food" :> <<"Name", "Total_Claimed">>) @@
    ("Top Food Types Available" :> <<"Food_Type", "Count">>) @@
    ("Avg Quantity Claimed per Receiver" :> <<"Name", "Avg_Quantity_Claimed">>) @@
    ("Claims Status Percentage" :> <<"Status", "Percentage">>) @@
    ("Claims Count per Food Item" :> <<"Food_Name", "Claims_Count">>) @@
    ("Most Claimed Meal Type" :> <<"Meal_Type", "Claims_Count">>) @@
    ("Total Food Donated by Provider" :> <<"Name", "Total_Quantity_Donated">>) @@
    ("Top Cities by Claimed Food Quantity" :> <<"City", "Total_Claimed">>) @@
    ("Providers with Most Food Listings" :> <<"Name", "Listings_Count">>) @@
    ("Expired or Soon-to-Expire Food Items" :> <<"Food_Name", "Quantity">>)

\* The names offered by the Data Analysis picker.
query_options ==
    << "Providers & Receivers by City",
       "Top Food Provider Type by Quantity",
       "Provider Contact Info by City",
       "Top Receivers by Claimed Food",
       "Total Food Quantity Available",
       "City with Most Food Listings",
       "Top Food Types Available",
       "Claims Count per Food Item",
       "Top Provider by Successful Claims",
       "Claims Status Percentage",
       "Avg Quantity Claimed per Receiver",
       "Most Claimed Meal Type",
       "Total Food Donated by Provider",
       "Top Cities by Claimed Food Quantity",
       "Providers with Most Food Listings",
       "Expired or Soon-to-Expire Food Items" >>

\* A name that is not in the catalog.
UnknownOption == "Listings per Day"
OptionNames == DOMAIN queries \cup {UnknownOption}

\* The values of param: None, the empty text input, a city name.
ParamValues == {PyNone, PyStr(""), PyStr("a")}

Analysis(option) == [kind |-> "analysis", table |-> option]

\* The store's answer to a catalog query executed with `params`.  A text
\* with a %s slot and no parameters is a syntax error; parameters for a text
\* without a slot are rejected by the connector.  `match` stands for the
\* conditions on columns outside the model and on the clock.
ExecAnalysis(store, option, params, match) ==
    LET t == queries[option]
        nonempty ==
            \/ t.aggregate
            \/ /\ \A tb \in t.from : store[tb] # {}
               /\ t.foodJoin =>
                     \E c \in store["Claims"], f \in store["Food_Listings"] :
                         c["Food_ID"] = f["Food_ID"]
               /\ t.dated => \E f \in store["Food_Listings"] : f["Expiry_Date"] # PyNone
               /\ t.free => match
    IN  IF t.slot # (params # <<>>)
        THEN [ok |-> FALSE, rows |-> {}]
        ELSE [ok |-> TRUE,
              rows |-> IF nonempty THEN {[c \in Range(t.columns) |-> PyNone]} ELSE {}]

\* params=(param,) if param else None: None and "" bind nothing.
bind_param(param) == IF param \in {PyNone, PyStr("")} THEN <<>> ELSE <<param>>

\* charts[option](df) if option in charts and not df.empty else None.  A rule
\* that reads a column the table lacks raises.
build_fig_IgnoresEmpty(option, df) ==
    IF option \in DOMAIN charts THEN Chart(charts[option]) ELSE NoFig

build_fig(option, df) ==
    IF option \in DOMAIN charts /\ df # {} THEN Chart(charts[option]) ELSE NoFig

chart_raises(fig, df) ==
    fig.kind = "chart" /\ \E r \in df : ~(Range(fig.reads) \subseteq DOMAIN r)

\* run_query(queries[option], params) inside analysis_query, then the chart.
analysis_query(store, option, param, connOk, match) ==
    LET call == Call("analysis_query", option, 0, <<<<"param", param>>>>, Analysis(option))
        params == bind_param(param)
        stmt == Statement("SELECT", option, queries[option].columns, params, "")
        a == ExecAnalysis(store, option, params, match)
        fig == build_fig(option, a.rows)
    IN  IF option \notin DOMAIN queries
        THEN Outcome(call,
               Effect(FALSE, <<>>, <<>>, FALSE, "none", FALSE,
                      Resources(0, 0), Resources(0, 0), {}), store)
        ELSE IF ~connOk THEN Outcome(call, ConnectionFailed(Resources(0, 0)), store)
        ELSE IF ~a.ok
        THEN Outcome(call,
               [Effect(TRUE, <<stmt>>, <<0>>, FALSE, "error: Query Error", FALSE,
                       Resources(1, 0), Resources(0, 0), {})
                  EXCEPT !.fig = build_fig(option, {})], store)
        ELSE Outcome(call,
               [Effect(TRUE, <<stmt>>, <<0>>, FALSE, "none", chart_raises(fig, a.rows),
                       Resources(1, 0), Resources(1, 0), a.rows)
                  EXCEPT !.fig = fig], store)

\* ------------------------------------------------------------ script runs
VARIABLES
    db,      \* the committed contents of the store: table name -> set of rows
    last,    \* the most recent call of the current script run (its startup
             \* test, or the core operation called after it), and what it did
    phase    \* "start": a script run begins; "ready": the startup test passed
             \* and the tab code runs; "stopped": the run was halted by st.stop()

vars == <<db, last, phase>>

NoCall ==
    [call |-> Call("none", "", 0, <<>>, NoQuery),
     effect |-> Effect(FALSE, <<>>, <<>>, FALSE, "none", FALSE,
                       Resources(0, 0), Resources(0, 0), {})]

Init ==
    /\ db = EmptyStore
    /\ last = NoCall
    /\ phase = "start"

\* A call returns to the script: an exception that left it (StopException)
\* halts the run; otherwise the caller goes on as `next` says.
Return(o, next) ==
    /\ last' = [call |-> o.call, effect |-> o.effect]
    /\ db' = o.store
    /\ phase' = IF o.effect.raised THEN "stopped" ELSE next

\* test_db_connection(): connect and close; True, or on any exception the
\* error report and False.  `connected` is its return value.
test_db_connection(connOk) ==
    LET call == Call("test_db_connection", "", 0, <<>>, NoQuery)
    IN  IF connOk
        THEN [call |-> call,
              effect |-> Effect(TRUE, <<>>, <<>>, FALSE, "none", FALSE,
                                Resources(1, 0), Resources(1, 0), {})]
        ELSE [call |-> call,
              effect |-> Effect(FALSE, <<>>, <<>>, FALSE,
                                "error: Database connection test failed", FALSE,
                                Resources(0, 0), Resources(0, 0), {})]

\* A gate that reports the failure but does not stop.
startup_gate_NoStop(passed) == "ready"

\* if not test_db_connection(): st.error(...); st.info(...); st.stop()
startup_gate(passed) == IF passed THEN "ready" ELSE "stopped"

\* The top of every script run: the startup test and its gate.
TestDbConnection ==
    /\ phase = "start"
    /\ \E ok \in BOOLEAN :
          LET t == test_db_connection(ok)
          IN  /\ last' = t
              /\ phase' = startup_gate(t.effect.connected)
    /\ UNCHANGED db

\* Tab 2: fetch_table_data(table_name).  The fetch only reads, so a form
\* further down the script finds the store as the same form of the next run
\* finds it: the model leaves the later tabs to the next run.
FetchTableData ==
    /\ phase = "ready"
    /\ \E t \in StoreTables, connOk \in BOOLEAN :
          Return(fetch_table_data(db, t, connOk), "start")

\* Tab 4: run_query(user_query) on arbitrary text.  Tab 4 follows the CRUD
\* forms in the script, so no CRUD call follows it in the same run.
RunQuery ==
    /\ phase = "ready"
    /\ \E q \in Queries, connOk \in BOOLEAN :
          Return(run_query(db, q, connOk), "start")

\* Tab 5: analysis_query(selected_query, param).
AnalysisQuery ==
    /\ phase = "ready"
    /\ \E option \in OptionNames, param \in ParamValues,
          connOk \in BOOLEAN, match \in BOOLEAN :
          Return(analysis_query(db, option, param, connOk, match), "start")

\* Tab 3, Create form: create_record(table_name, inputs); st.rerun().
CreateRecord ==
    /\ phase = "ready"
    /\ \E t \in TableNames, connOk \in BOOLEAN :
          \E inputs \in FieldMaps(CreateFields(t)) :
             LET o == create_record(db, t, inputs, connOk)
             IN  /\ TotalRows(o.store) <= MaxRows
                 /\ Return(o, "start")

\* Tab 3, Update form: update_record(table_name, record_id, inputs); st.rerun().
UpdateRecord ==
    /\ phase = "ready"
    /\ \E t \in TableNames, id \in 1..MaxId, connOk \in BOOLEAN :
          \E inputs \in FieldMaps(UpdateFields(t)) :
             Return(update_record(db, t, id, inputs, connOk), "start")

\* Tab 3, Delete form: delete_record(table_name, record_id); st.rerun().
DeleteRecord ==
    /\ phase = "ready"
    /\ \E t \in TableNames, id \in 1..MaxId, connOk \in BOOLEAN :
          Return(delete_record(db, t, id, connOk), "start")

\* The script run ends (or was halted) and the next interaction starts a
\* new run from the top of the script.
NewRun ==
    /\ phase \in {"ready", "stopped"}
    /\ phase' = "start"
    /\ last' = NoCall
    /\ UNCHANGED db

Next ==
    \/ TestDbConnection
    \/ FetchTableData
    \/ RunQuery
    \/ AnalysisQuery
    \/ CreateRecord
    \/ UpdateRecord
    \/ DeleteRecord
    \/ NewRun

Spec == Init /\ [][Next]_vars

\* ----------------------------------------------------------------- claims
CrudOps == {"create_record", "update_record", "delete_record"}

\* The entries the specification keeps: the value is not null, not the
\* empty string and not the number zero.
NonEmptyEntry(kv) ==
    /\ kv[2].ty # "NoneType"
    /\ ~(kv[2].ty = "str" /\ kv[2].s = "")
    /\ ~(kv[2].ty = "int" /\ kv[2].n = 0)

NonEmptyEntries(inputs) == SelectSeq(inputs, NonEmptyEntry)

HasRow(store, t, id) == \E r \in store[t] : r[primary_keys[t]] = PyInt(id)

\* C1: a create_record(T, F) that obtained its connection sends exactly one
\* INSERT into T whose columns and bound parameters are the non-empty entries
\* of F in F's order when there is such an entry, and otherwise sends no
\* statement, commits nothing and only warns; update_record on a known table
\* builds its SET clause from the same entries.
C1_CreateSendsFilteredInsert ==
    LET c == last.call
        e == last.effect
        keep == NonEmptyEntries(c.inputs)
    IN  /\ (c.op = "create_record" /\ e.connected) =>
              IF keep # <<>>
              THEN e.stmts = <<Statement("INSERT", c.table, Keys(keep), Vals(keep), "")>>
              ELSE /\ e.stmts = <<>>
                   /\ ~e.committed
                   /\ e.report = "warning: No data to insert"
        /\ (c.op = "update_record" /\ e.connected /\ c.table \in StoreTables) =>
              IF keep # <<>>
              THEN e.stmts = <<Statement("UPDATE", c.table, Keys(keep),
                                         Append(Vals(keep), PyInt(c.id)),
                                         primary_keys[c.table])>>
              ELSE e.stmts = <<>>

\* A create_record whose field map has a dropped entry before a kept one
\* sent its INSERT.
C1_Witness ==
    /\ last.call.op = "create_record"
    /\ Len(last.call.inputs) = 2
    /\ ~NonEmptyEntry(last.call.inputs[1])
    /\ NonEmptyEntry(last.call.inputs[2])
    /\ Len(last.effect.stmts) = 1

\* C2: an update_record whose filtered field map is empty sends no statement;
\* one that obtained its connection for a known table with a non-empty
\* filtered field map, when no row has the given primary key, reports "no
\* record found" and leaves the store as it was.
C2_UpdateOfMissingRow ==
    [][ (phase = "ready" /\ last'.call.op = "update_record") =>
          LET c == last'.call
              e == last'.effect
              keep == NonEmptyEntries(c.inputs)
          IN  /\ keep = <<>> => e.stmts = <<>>
              /\ ( /\ keep # <<>>
                   /\ e.connected
                   /\ c.table \in StoreTables
                   /\ ~HasRow(db, c.table, c.id) ) =>
                      /\ e.report = "warning: No record found"
                      /\ db' = db ]_vars

\* An update_record with a field to set found no row with the given key.
C2_Witness ==
    /\ last.call.op = "update_record"
    /\ NonEmptyEntries(last.call.inputs) # <<>>
    /\ last.call.table \in StoreTables
    /\ ~HasRow(db, last.call.table, last.call.id)
    /\ last.effect.report = "warning: No record found"

\* C3: a delete_record("Food_Listings", id) that obtained its connection sends
\* DELETE FROM Claims WHERE Food_ID = id and then DELETE FROM Food_Listings
\* WHERE Food_ID = id, whether or not the listing exists; once it has
\* committed no Claims row with Food_ID = id remains; a delete_record on any
\* other table sends no deletion of Claims by Food_ID.
C3_ClaimsDeletedBeforeListing ==
    LET c == last.call
        e == last.effect
        id == PyInt(c.id)
    IN  (c.op = "delete_record" /\ e.connected) =>
          /\ c.table = "Food_Listings" =>
                /\ e.stmts = << Statement("DELETE", "Claims", <<>>, <<id>>, "Food_ID"),
                               Statement("DELETE", "Food_Listings", <<>>, <<id>>, "Food_ID") >>
                /\ e.committed => ~\E r \in db["Claims"] : r["Food_ID"] = id
          /\ c.table # "Food_Listings" =>
                \A i \in 1..Len(e.stmts) :
                    ~(e.stmts[i].table = "Claims" /\ e.stmts[i].where = "Food_ID")

\* A delete of a listing that does not exist still sent both deletions.
C3_Witness ==
    /\ last.call.op = "delete_record"
    /\ last.call.table = "Food_Listings"
    /\ Len(last.effect.stmts) = 2
    /\ last.effect.rowcounts = <<0, 0>>
    /\ \E r \in db["Claims"] : TRUE

\* C4: run_query never raises to its caller: it returns a table, and when it
\* reports an error the table is empty.
C4_RunQueryNeverRaises ==
    last.call.op = "run_query" =>
        /\ ~last.effect.raised
        /\ last.effect.report # "none" => last.effect.df = {}

\* C5: every connection run_query opened is closed when it returns.
C5_RunQueryClosesConnection ==
    last.call.op = "run_query" =>
        last.effect.connsClosed = last.effect.connsOpened

\* C6: create_record, update_record and delete_record close every cursor
\* and connection they opened, on every exit path.
C6_CrudReleasesResources ==
    last.call.op \in CrudOps =>
        /\ last.effect.connsClosed = last.effect.connsOpened
        /\ last.effect.cursorsClosed = last.effect.cursorsOpened

\* An update_record on an unknown table name (KeyError, caught as an
\* unexpected error) had opened a connection and a cursor.
C6_Witness ==
    /\ last.call.op = "update_record"
    /\ last.effect.report = "error: Unexpected error"
    /\ last.effect.connsOpened = 1
    /\ last.effect.cursorsOpened = 1

C8_DeleteReportFollowsPrimaryDelete ==
    LET e == last.effect
        n == Len(e.rowcounts)
    IN  (last.call.op = "delete_record" /\ e.committed) =>
          /\ e.stmts[n].where = primary_keys[last.call.table]
          /\ e.report = "warning: No record found" <=> e.rowcounts[n] = 0
          /\ e.report = "success: Record deleted" <=> e.rowcounts[n] >= 1

\* Claims of a listing were removed although the listing itself did not
\* exist: the report is "no record found".
C8_Witness ==
    /\ last.call.op = "delete_record"
    /\ last.call.table = "Food_Listings"
    /\ Len(last.effect.rowcounts) = 2
    /\ last.effect.rowcounts[1] >= 1
    /\ last.effect.rowcounts[2] = 0
    /\ last.effect.report = "warning: No record found"

\* C9: a CRUD call naming a table outside the four known ones reports a
\* failure and sends no statement to the store.
C9_UnknownTableRejected ==
    ( /\ last.call.op \in CrudOps
      /\ last.effect.connected
      /\ last.call.table \notin DOMAIN primary_keys ) =>
        /\ last.effect.stmts = <<>>
        /\ last.effect.report \in {"error: Unexpected error"}

\* C10: after a create_record(T, F) that reports success, fetch_table_data(T)
\* returns a row holding the non-empty entries of F (NULL in the columns F
\* leaves out), and every row T held before the call.
C10_CreateThenFetch ==
    [][ ( /\ phase = "ready"
          /\ last'.call.op = "create_record"
          /\ last'.effect.report = "success: Record created" ) =>
            LET c == last'.call
                keep == NonEmptyEntries(c.inputs)
                df == fetch_table_data(db', c.table, TRUE).effect.df
            IN  /\ \E r \in df :
                      /\ \A i \in 1..Len(keep) :
                            keep[i][1] \in DOMAIN r /\ r[keep[i][1]] = keep[i][2]
                      /\ \A col \in DOMAIN r :
                            col \notin Range(Keys(keep)) => r[col] = PyNone
                /\ db[c.table] \subseteq df ]_vars

\* A create_record succeeded on a table that already held a row.
C10_Witness ==
    /\ last.call.op = "create_record"
    /\ last.effect.report = "success: Record created"
    /\ Cardinality(db[last.call.table]) = 2

CoreOps == CrudOps \cup {"run_query", "analysis_query"}

\* C11: an analysis_query that returns gives a chart exactly when the name is
\* in the catalog, the result table is not empty and the name has a chart
\* rule; an empty table comes with no chart; a name outside the catalog
\* sends no statement and gets no chart.
C11_ChartOnlyForNonEmptyResult ==
    LET c == last.call
        e == last.effect
    IN  c.op = "analysis_query" =>
          /\ c.table \notin DOMAIN queries => e.stmts = <<>> /\ e.fig = NoFig
          /\ e.df = {} => e.fig = NoFig
          /\ ~e.raised =>
                (e.fig.kind = "chart" <=>
                    /\ c.table \in DOMAIN queries
                    /\ e.df # {}
                    /\ c.table \in DOMAIN charts)

\* An analysis with a chart rule returned a non-empty table and its chart.
C11_Witness ==
    /\ last.call.op = "analysis_query"
    /\ last.effect.df # {}
    /\ last.effect.fig.kind = "chart"

\* C12: the statement analysis_query executes has a parameter bound exactly
\* when the template of that name has a parameter slot, whatever param is.
C12_ParamBoundIffSlot ==
    (last.call.op = "analysis_query" /\ last.effect.stmts # <<>>) =>
        (last.effect.stmts[1].params # <<>> <=> queries[last.call.table].slot)

\* C13: a script run begins with test_db_connection; a core operation is
\* called only after the test has passed in that run; a failed test halts
\* the run; test_db_connection leaves no connection open.
C13_StartupGate ==
    [][ /\ (last' # last /\ last'.call.op \in CoreOps) => phase = "ready"
        /\ (phase' = "ready" /\ phase # "ready") =>
              /\ phase = "start"
              /\ last'.call.op = "test_db_connection"
              /\ last'.effect.connected
        /\ (phase = "start" /\ phase' # "start") =>
              /\ last'.call.op = "test_db_connection"
              /\ ~last'.effect.connected => phase' = "stopped"
        /\ last'.call.op = "test_db_connection" =>
              last'.effect.connsClosed = last'.effect.connsOpened ]_vars

\* A run whose startup test failed was halted at the gate.
C13_Witness ==
    /\ phase = "stopped"
    /\ last.call.op = "test_db_connection"
    /\ ~last.effect.connected

\* C14: a connection failure inside a core operation is reported by the
\* operation, which returns normally; the script run goes on.
C14_ConnectionFailureAbortsOnlyOperation ==
    ( /\ last.call.op \in CoreOps
      /\ last.effect.report = "error: Error connecting to the database" ) =>
        /\ ~last.effect.raised
        /\ phase # "stopped"

\* C15 as stated: every write operation sends the store a single statement.
C15_SingleStatementPerWrite ==
    last.call.op \in CrudOps => Len(last.effect.stmts) <= 1

\* C15 as amended: create_record, update_record and delete_record on a table
\* other than Food_Listings send at most one statement;
\* delete_record("Food_Listings", id) sends its two deletions in one
\* transaction; a write operation commits only after all its statements ran
\* without error, and when it does not commit the store is unchanged.
C15_OneCommitPerWrite ==
    [][ (phase = "ready" /\ last'.call.op \in CrudOps) =>
          LET c == last'.call
              e == last'.effect
              cascade == c.op = "delete_record" /\ c.table = "Food_Listings"
          IN  /\ ~cascade => Len(e.stmts) <= 1
              /\ (cascade /\ e.connected) => Len(e.stmts) = 2
              /\ e.committed =>
                    /\ e.stmts # <<>>
                    /\ e.report \in {"success: Record created", "success: Record updated",
                                     "success: Record deleted", "warning: No record found"}
              /\ ~e.committed => db' = db ]_vars

\* A delete of a listing committed the removal of its claims with it.
C15_Witness ==
    /\ last.call.op = "delete_record"
    /\ last.call.table = "Food_Listings"
    /\ last.effect.committed
    /\ Len(last.effect.rowcounts) = 2
    /\ last.effect.rowcounts[1] >= 1

\* C16: an update_record from the Update form leaves every non-key column
\* whose widget was left at its default value (empty text, 0, today's date)
\* as it was in the targeted row.
C16_UpdateLeavesDefaultFieldsAlone ==
    [][ ( /\ phase = "ready"
          /\ last'.call.op = "update_record"
          /\ last'.call.table \in StoreTables ) =>
            LET c == last'.call
                pk == primary_keys[c.table]
            IN  \A i \in 1..Len(c.inputs) :
                    c.inputs[i][2] = WidgetDefault(c.inputs[i][1]) =>
                        \A r \in db[c.table], q \in db'[c.table] :
                            (r[pk] = PyInt(c.id) /\ q[pk] = PyInt(c.id)) =>
                                q[c.inputs[i][1]] = r[c.inputs[i][1]] ]_vars

\* C17: the catalog has 16 names, the picker offers exactly these, every
\* chart rule is keyed by a catalog name and reads only columns its query
\* projects, and building the chart of a non-empty result never fails.
C17_CatalogConsistent ==
    /\ Cardinality(DOMAIN queries) = 16
    /\ Len(query_options) = 16
    /\ Range(query_options) = DOMAIN queries
    /\ DOMAIN charts \subseteq DOMAIN queries
    /\ \A name \in DOMAIN charts \cap DOMAIN queries :
          Range(charts[name]) \subseteq Range(queries[name].columns)
    /\ (last.call.op = "analysis_query" /\ last.effect.df # {}) => ~last.effect.raised

\* A chart was built from a result that projects more columns than the
\* rule reads.
C17_Witness ==
    /\ last.call.op = "analysis_query"
    /\ last.effect.fig.kind = "chart"
    /\ ~last.effect.raised
    /\ Len(last.effect.fig.reads) < Len(last.effect.stmts[1].cols)

====
